---- MODULE Spec2Model ----
(***************************************************************************)
(* Model of spotifydata.py: the loader (load_streaming_history), the       *)
(* normalizer (safe_get, parse_dt, normalize_record), the aggregation loop *)
(* and the reporter/exporter of main.                                      *)
(*                                                                         *)
(* Python values are records [t, s, n]: t is the Python type, s the text   *)
(* of a str, n the number of an int / bool (0, 1) / float (in tenths) or   *)
(* the length of a list.  A str is a sequence of chunks whose              *)
(* concatenation is the text; the chunk " " is one whitespace character,   *)
(* "Z" the letter Z, every other chunk a piece of text without leading or  *)
(* trailing whitespace.  A raw record (a JSON object) is a function from   *)
(* its keys to values.                                                     *)
(***************************************************************************)
EXTENDS Integers, Sequences, FiniteSets, TLC

VARIABLES
  TOP_N, SAVE_CSV, INCLUDE_PODCASTS_AUDIOBOOKS,   \* configuration globals
  pc,                                             \* position in the program
  fs, globbed, records, raised,                   \* loader: files, glob result, result, exception
  i, r, norm,                                     \* main loop: index, record, normalize_record's result
  artist_ms, track_ms, year_total_ms, year_streams, usable,
  years, yi,                                      \* report loop: sorted years, index
  console, outdir, files,                         \* effects: printed blocks, ./out exists, files written
  run, rerun_records, first_records, first_console   \* re-run of the pipeline on a reordered input

vars == <<TOP_N, SAVE_CSV, INCLUDE_PODCASTS_AUDIOBOOKS, pc, fs, globbed, records,
          raised, i, r, norm, artist_ms, track_ms, year_total_ms, year_streams,
          usable, years, yi, console, outdir, files, run, rerun_records, first_console, first_records>>

----------------------------------------------------------------------------
(* Python values *)

PyNone == [t |-> "None", s |-> <<>>, n |-> 0]
PyStr(chunks) == [t |-> "str", s |-> chunks, n |-> 0]
PyInt(k) == [t |-> "int", s |-> <<>>, n |-> k]
PyFloat(tenths) == [t |-> "float", s |-> <<>>, n |-> tenths]
PyBool(b) == [t |-> "bool", s |-> <<>>, n |-> IF b THEN 1 ELSE 0]
PyList(len) == [t |-> "list", s |-> <<>>, n |-> len]

\* bool(v): None, "", 0, 0.0, False and [] are falsy
Truthy(v) ==
  CASE v.t = "None" -> FALSE
    [] v.t = "str" -> v.s # <<>>
    [] OTHER -> v.n # 0

Abs(k) == IF k < 0 THEN -k ELSE k

\* str(v)
str(v) ==
  CASE v.t = "str" -> v.s
    [] v.t = "None" -> <<"None">>
    [] v.t = "int" -> <<ToString(v.n)>>
    [] v.t = "bool" -> IF v.n = 1 THEN <<"True">> ELSE <<"False">>
    [] v.t = "float" -> <<(IF v.n < 0 THEN "-" ELSE "") \o ToString(Abs(v.n) \div 10)
                           \o "." \o ToString(Abs(v.n) % 10)>>
    [] OTHER -> <<"[...]">>

RECURSIVE lstrip(_)
lstrip(s) == IF s # <<>> /\ Head(s) = " " THEN lstrip(Tail(s)) ELSE s

RECURSIVE rstrip(_)
rstrip(s) ==
  IF s # <<>> /\ s[Len(s)] = " " THEN rstrip(SubSeq(s, 1, Len(s) - 1)) ELSE s

\* str.strip()
strip(s) == rstrip(lstrip(s))

----------------------------------------------------------------------------
(* parse_dt *)

NoDate == [ok |-> FALSE, year |-> 0]
Date(y) == [ok |-> TRUE, year |-> y]

\* texts datetime.fromisoformat accepts, with the year of the result
IsoTexts ==
  ("2023-05-01T10:00:00" :> 2023) @@ ("2022-12-31 23:59" :> 2022)
    @@ ("2021-07-04T08:30:00.123" :> 2021)

\* texts datetime.strptime accepts under "%Y-%m-%d %H:%M"
StrptimeHM ==
  ("2022-12-31 23:59" :> 2022) @@ ("2023-5-1 10:00" :> 2023)

\* texts datetime.strptime accepts under "%Y-%m-%dT%H:%M:%S"
StrptimeTHMS ==
  ("2023-05-01T10:00:00" :> 2023) @@ ("2021-1-2T03:04:05" :> 2021)

Parse(table, text) ==
  IF Len(text) = 1 /\ text[1] \in DOMAIN table THEN Date(table[text[1]]) ELSE NoDate

fromisoformat(text) == Parse(IsoTexts, text)

parse_dt(ts) ==
  LET s1 == strip(str(ts))
      s2 == IF s1 # <<>> /\ s1[Len(s1)] = "Z" THEN SubSeq(s1, 1, Len(s1) - 1) ELSE s1
  IN  IF fromisoformat(s2).ok THEN fromisoformat(s2)
      ELSE IF Parse(StrptimeHM, s2).ok THEN Parse(StrptimeHM, s2)
      ELSE IF Parse(StrptimeTHMS, s2).ok THEN Parse(StrptimeTHMS, s2)
      ELSE NoDate

----------------------------------------------------------------------------
(* safe_get *)

\* d[k] in (None, "", "null")
Skipped(v) == v.t = "None" \/ (v.t = "str" /\ (v.s = <<>> \/ v.s = <<"null">>))

RECURSIVE safe_get(_, _)
safe_get(d, keys) ==
  IF keys = <<>> THEN PyNone
  ELSE IF Head(keys) \in DOMAIN d /\ ~Skipped(d[Head(keys)]) THEN d[Head(keys)]
  ELSE safe_get(d, Tail(keys))

----------------------------------------------------------------------------
(* normalize_record *)

\* decimal literals int(str) accepts
IntTexts ==
  ("180000" :> 180000) @@ ("0" :> 0) @@ ("-5" :> -5) @@ ("5000" :> 5000)

\* int(v): [ok |-> FALSE] stands for the ValueError / TypeError it raises
int(v) ==
  CASE v.t = "int" -> [ok |-> TRUE, n |-> v.n]
    [] v.t = "bool" -> [ok |-> TRUE, n |-> v.n]
    [] v.t = "float" ->
         [ok |-> TRUE, n |-> IF v.n < 0 THEN -(Abs(v.n) \div 10) ELSE v.n \div 10]
    [] v.t = "str" ->
         LET s == strip(v.s)
         IN  IF Len(s) = 1 /\ s[1] \in DOMAIN IntTexts
             THEN [ok |-> TRUE, n |-> IntTexts[s[1]]]
             ELSE [ok |-> FALSE, n |-> 0]
    [] OTHER -> [ok |-> FALSE, n |-> 0]

TsKeys == <<"ts", "endTime", "timestamp", "played_at">>
MsKeys == <<"ms_played", "msPlayed", "play_duration_ms">>
TrackKeys == <<"master_metadata_track_name", "trackName", "track", "track_name", "name">>
ArtistKeys == <<"master_metadata_album_artist_name", "artistName", "artist",
                "artist_name", "master_metadata_artist_name">>

RECURSIVE Reverse(_)
Reverse(q) == IF q = <<>> THEN <<>> ELSE Append(Reverse(Tail(q)), Head(q))

\* the bug of probing the aliases last to first
ResolvedTs_LastWins(rec) == safe_get(rec, Reverse(TsKeys))

\* ts of line 52
ResolvedTs(rec) == safe_get(rec, TsKeys)
\* dt of line 53
ResolvedDt(rec) == IF ResolvedTs(rec) # PyNone THEN parse_dt(ResolvedTs(rec)) ELSE NoDate

\* ms of lines 57-61
ResolvedMs(rec) ==
  LET ms == safe_get(rec, MsKeys)
  IN  IF ms = PyNone THEN 0 ELSE IF int(ms).ok THEN int(ms).n ELSE 0

\* f"{a} - {b}"
Dash(a, b) == str(a) \o <<" ", "-", " ">> \o str(b)

NoEvent == [some |-> FALSE, year |-> 0, item_type |-> "", artist_key |-> <<>>,
            item_key |-> <<>>, ms |-> 0]
Event(year, item_type, group, item, ms) ==
  [some |-> TRUE, year |-> year, item_type |-> item_type,
   artist_key |-> strip(str(group)), item_key |-> strip(Dash(group, item)), ms |-> ms]

\* lines 74-89: the classification done when INCLUDE_PODCASTS_AUDIOBOOKS is set
NonMusic(rec, year, ms) ==
  LET ep == safe_get(rec, <<"episode_name">>)
      show == safe_get(rec, <<"episode_show_name">>)
      ab == safe_get(rec, <<"audiobook_title">>)
      ch == safe_get(rec, <<"audiobook_chapter_title">>)
  IN  IF Truthy(ep) /\ Truthy(show) THEN Event(year, "podcast", show, ep, ms)
      ELSE IF Truthy(ab) /\ Truthy(ch) THEN Event(year, "audiobook", ab, ch, ms)
      ELSE NoEvent

\* the bug of rejecting only negative durations
normalize_record_ZeroPasses(rec, include) ==
  LET dt == ResolvedDt(rec)
      ms == ResolvedMs(rec)
      track == safe_get(rec, TrackKeys)
      artist == safe_get(rec, ArtistKeys)
  IN  IF ~dt.ok THEN NoEvent
      ELSE IF ms < 0 THEN NoEvent
      ELSE IF Truthy(track) /\ Truthy(artist) THEN Event(dt.year, "song", artist, track, ms)
      ELSE IF include THEN NonMusic(rec, dt.year, ms)
      ELSE NoEvent

\* the bug of classifying non-music content whatever the flag
normalize_record_FlagIgnored(rec, include) ==
  LET dt == ResolvedDt(rec)
      ms == ResolvedMs(rec)
      track == safe_get(rec, TrackKeys)
      artist == safe_get(rec, ArtistKeys)
  IN  IF ~dt.ok THEN NoEvent
      ELSE IF ms <= 0 THEN NoEvent
      ELSE IF Truthy(track) /\ Truthy(artist) THEN Event(dt.year, "song", artist, track, ms)
      ELSE NonMusic(rec, dt.year, ms)

normalize_record(rec, include) ==
  LET dt == ResolvedDt(rec)
      ms == ResolvedMs(rec)
      track == safe_get(rec, TrackKeys)
      artist == safe_get(rec, ArtistKeys)
  IN  IF ~dt.ok THEN NoEvent
      ELSE IF ms <= 0 THEN NoEvent
      ELSE IF Truthy(track) /\ Truthy(artist) THEN Event(dt.year, "song", artist, track, ms)
      ELSE IF include THEN NonMusic(rec, dt.year, ms)
      ELSE NoEvent

----------------------------------------------------------------------------
(* load_streaming_history *)

\* A path is a string, modelled as the sequence of its character codes;
\* sorted() orders str lexicographically by code point.
RECURSIVE PathLess(_, _)
PathLess(a, b) ==
  IF a = <<>> THEN b # <<>>
  ELSE IF b = <<>> THEN FALSE
  ELSE IF Head(a) # Head(b) THEN Head(a) < Head(b)
  ELSE PathLess(Tail(a), Tail(b))

SeqRange(s) == {s[j] : j \in DOMAIN s}

\* the bug of sorting the paths in descending order
RECURSIVE sorted_Descending(_)
sorted_Descending(S) ==
  IF S = {} THEN <<>>
  ELSE LET m == CHOOSE p \in S : \A q \in S \ {p} : PathLess(q, p)
       IN  <<m>> \o sorted_Descending(S \ {m})

\* sorted(S) for a set of paths
RECURSIVE sorted(_)
sorted(S) ==
  IF S = {} THEN <<>>
  ELSE LET m == CHOOSE p \in S : \A q \in S \ {p} : PathLess(p, q)
       IN  <<m>> \o sorted(S \ {m})

\* A directory entry the glob matched: kind "dir" is one open() cannot open
\* for reading; a regular file has a payload: decodes tells whether json.load
\* succeeds, top the type of the decoded value, elems the elements of a
\* top-level list, history / helems the "history" member of a top-level object.
DirEntry ==
  [kind |-> "dir", decodes |-> FALSE, top |-> "", elems |-> <<>>,
   history |-> "absent", helems |-> <<>>]
Undecodable ==
  [kind |-> "file", decodes |-> FALSE, top |-> "", elems |-> <<>>,
   history |-> "absent", helems |-> <<>>]
JsonList(es) ==
  [kind |-> "file", decodes |-> TRUE, top |-> "list", elems |-> es,
   history |-> "absent", helems |-> <<>>]
JsonHistory(es) ==
  [kind |-> "file", decodes |-> TRUE, top |-> "dict", elems |-> <<>>,
   history |-> "list", helems |-> es]
JsonHistoryOther ==
  [kind |-> "file", decodes |-> TRUE, top |-> "dict", elems |-> <<>>,
   history |-> "other", helems |-> <<>>]
JsonDict ==
  [kind |-> "file", decodes |-> TRUE, top |-> "dict", elems |-> <<>>,
   history |-> "absent", helems |-> <<>>]
JsonScalar ==
  [kind |-> "file", decodes |-> TRUE, top |-> "scalar", elems |-> <<>>,
   history |-> "absent", helems |-> <<>>]

\* an element of a JSON list: an object (a raw record) or anything else
Dict(rec) == [isdict |-> TRUE, rec |-> rec]
NonDict == [isdict |-> FALSE, rec |-> <<>>]

RECURSIVE DictsOf(_)
DictsOf(es) ==
  IF es = <<>> THEN <<>>
  ELSE (IF Head(es).isdict THEN <<Head(es).rec>> ELSE <<>>) \o DictsOf(Tail(es))

\* lines 39-48: what one opened file appends to records
FileRecords(file) ==
  IF ~file.decodes THEN <<>>
  ELSE LET unwrap == file.top = "dict" /\ file.history = "list"
           islist == unwrap \/ file.top = "list"
           data == IF unwrap THEN file.helems ELSE file.elems
       IN  IF islist THEN DictsOf(data) ELSE <<>>

\* lines 37-49: the loop over the sorted paths
RECURSIVE LoadPaths(_, _, _)
LoadPaths(paths, f, acc) ==
  IF paths = <<>> THEN [raised |-> "", records |-> acc]
  ELSE IF f[Head(paths)].kind = "dir"
       THEN [raised |-> "IsADirectoryError", records |-> <<>>]
       ELSE LoadPaths(Tail(paths), f, acc \o FileRecords(f[Head(paths)]))

\* g: what glob.glob returns (any order, possibly with repetitions); f: the files
load_streaming_history(g, f) ==
  LET paths == sorted(SeqRange(g))
  IN  IF paths = <<>> THEN [raised |-> "FileNotFoundError", records |-> <<>>]
      ELSE LoadPaths(paths, f, <<>>)

----------------------------------------------------------------------------
(* collections.Counter / defaultdict *)

\* A Counter is a dict: the sequence of its entries [k, v] in insertion order.
HasKey(c, k) == \E j \in DOMAIN c : c[j].k = k

\* the bug of c[k] = ms
CounterAdd_Overwrite(c, k, ms) ==
  IF HasKey(c, k)
  THEN [j \in DOMAIN c |-> IF c[j].k = k THEN [k |-> k, v |-> ms] ELSE c[j]]
  ELSE Append(c, [k |-> k, v |-> ms])

\* c[k] += ms: an existing key keeps its place, a new key goes last
CounterAdd(c, k, ms) ==
  IF HasKey(c, k)
  THEN [j \in DOMAIN c |-> IF c[j].k = k THEN [k |-> k, v |-> c[j].v + ms] ELSE c[j]]
  ELSE Append(c, [k |-> k, v |-> ms])

\* d[year] of a defaultdict(Counter), modelled as a function on the years seen
YearCounter(d, year) == IF year \in DOMAIN d THEN d[year] ELSE <<>>

\* d[year][k] += ms
YearCounterAdd(d, year, k, ms) ==
  (year :> CounterAdd(YearCounter(d, year), k, ms)) @@ d

\* year_total_ms[year] += ms, year_streams[year] += 1 (key order is never read)
YearGet(c, year) == IF year \in DOMAIN c THEN c[year] ELSE 0
\* the bug of counting a year's event once however often it repeats
YearAdd_Once(c, year, amount) == (year :> amount) @@ c

YearAdd(c, year, amount) == (year :> YearGet(c, year) + amount) @@ c

\* sorted(items, key=itemgetter(1), reverse=True): a stable sort, so entries of
\* equal count keep their insertion order
\* the bug of a sort that puts a later entry before its equals
RECURSIVE InsertDesc_Unstable(_, _)
InsertDesc_Unstable(sortedItems, x) ==
  IF sortedItems = <<>> THEN <<x>>
  ELSE IF Head(sortedItems).v > x.v
       THEN <<Head(sortedItems)>> \o InsertDesc_Unstable(Tail(sortedItems), x)
       ELSE <<x>> \o sortedItems

RECURSIVE InsertDesc(_, _)
InsertDesc(sortedItems, x) ==
  IF sortedItems = <<>> THEN <<x>>
  ELSE IF Head(sortedItems).v >= x.v
       THEN <<Head(sortedItems)>> \o InsertDesc(Tail(sortedItems), x)
       ELSE <<x>> \o sortedItems

RECURSIVE SortDesc(_, _)
SortDesc(items, acc) ==
  IF items = <<>> THEN acc ELSE SortDesc(Tail(items), InsertDesc(acc, Head(items)))

\* Counter.most_common(): every entry
most_common_all(c) == SortDesc(c, <<>>)

\* the bug of taking the first n entries as inserted
most_common_Unsorted(c, n) ==
  SubSeq(c, 1, IF n < Len(c) THEN (IF n < 0 THEN 0 ELSE n) ELSE Len(c))

\* Counter.most_common(n) = heapq.nlargest(n, items, key) = sorted(...)[:n]
most_common(c, n) ==
  SubSeq(SortDesc(c, <<>>), 1, IF n < Len(c) THEN (IF n < 0 THEN 0 ELSE n) ELSE Len(c))

\* sorted(year_total_ms.keys())
RECURSIVE SortedYears(_)
SortedYears(S) ==
  IF S = {} THEN <<>>
  ELSE LET m == CHOOSE y \in S : \A z \in S : y <= z
       IN  <<m>> \o SortedYears(S \ {m})

----------------------------------------------------------------------------
(* effects *)

\* One printed block.  kind "year" is the block of lines 134-145 with the
\* year's totals and its two top lists; the hours rendering of a count
\* (ms_to_hours and the format) is not modelled, the count itself is kept.
Msg(kind) ==
  [kind |-> kind, year |-> 0, total_ms |-> 0, streams |-> 0,
   artists |-> <<>>, songs |-> <<>>]
YearBlock(y, total, streams, artists, songs) ==
  [kind |-> "year", year |-> y, total_ms |-> total, streams |-> streams,
   artists |-> artists, songs |-> songs]

\* f"out/{y}_top_artists.csv", f"out/{y}_top_songs.csv", "out/year_totals.csv"
CsvName(y, name) == [year |-> y, name |-> name]

\* the file system under ./out after save_counter_csv(path, counter, left, right)
save_counter_csv(out, path, counter, left, right) ==
  (path :> [header |-> <<left, right>>, rows |-> most_common_all(counter)]) @@ out

\* lines 152-155
TotalsRows(ys, totals, streams) ==
  [j \in DOMAIN ys |->
     [year |-> ys[j], total_ms |-> YearGet(totals, ys[j]),
      total_streams |-> YearGet(streams, ys[j])]]

----------------------------------------------------------------------------
(* main *)

Loaded == load_streaming_history(globbed, fs)

\* line 103, load_streaming_history raises: main ends with the exception
LoadRaises ==
  /\ pc = "start"
  /\ Loaded.raised # ""
  /\ raised' = Loaded.raised
  /\ pc' = "aborted"
  /\ UNCHANGED <<TOP_N, SAVE_CSV, INCLUDE_PODCASTS_AUDIOBOOKS, fs, globbed, records,
                 i, r, norm, artist_ms, track_ms, year_total_ms, year_streams, usable,
                 years, yi, console, outdir, files, run, rerun_records, first_console, first_records>>

\* lines 103-110
LoadReturns ==
  /\ pc = "start"
  /\ Loaded.raised = ""
  /\ records' = Loaded.records
  /\ artist_ms' = <<>>
  /\ track_ms' = <<>>
  /\ year_total_ms' = <<>>
  /\ year_streams' = <<>>
  /\ usable' = 0
  /\ i' = 1
  /\ pc' = "loop"
  /\ UNCHANGED <<TOP_N, SAVE_CSV, INCLUDE_PODCASTS_AUDIOBOOKS, fs, globbed, raised,
                 r, norm, years, yi, console, outdir, files, run, rerun_records,
                 first_console, first_records>>

\* lines 111-114: an iteration whose record does not normalize
LoopSkip ==
  /\ pc = "loop"
  /\ i <= Len(records)
  /\ ~normalize_record(records[i], INCLUDE_PODCASTS_AUDIOBOOKS).some
  /\ r' = records[i]
  /\ norm' = normalize_record(records[i], INCLUDE_PODCASTS_AUDIOBOOKS)
  /\ i' = i + 1
  /\ UNCHANGED <<TOP_N, SAVE_CSV, INCLUDE_PODCASTS_AUDIOBOOKS, pc, fs, globbed, records,
                 raised, artist_ms, track_ms, year_total_ms, year_streams, usable,
                 years, yi, console, outdir, files, run, rerun_records, first_console, first_records>>

\* lines 111-121: an iteration that aggregates its event
LoopAggregate ==
  /\ pc = "loop"
  /\ i <= Len(records)
  /\ LET ev == normalize_record(records[i], INCLUDE_PODCASTS_AUDIOBOOKS)
     IN  /\ ev.some
         /\ r' = records[i]
         /\ norm' = ev
         /\ usable' = usable + 1
         /\ artist_ms' = YearCounterAdd(artist_ms, ev.year, ev.artist_key, ev.ms)
         /\ track_ms' = YearCounterAdd(track_ms, ev.year, ev.item_key, ev.ms)
         /\ year_total_ms' = YearAdd(year_total_ms, ev.year, ev.ms)
         /\ year_streams' = YearAdd(year_streams, ev.year, 1)
  /\ i' = i + 1
  /\ UNCHANGED <<TOP_N, SAVE_CSV, INCLUDE_PODCASTS_AUDIOBOOKS, pc, fs, globbed, records,
                 raised, years, yi, console, outdir, files, run, rerun_records,
                 first_console, first_records>>

\* lines 123-125
NoUsable ==
  /\ pc = "loop"
  /\ i > Len(records)
  /\ usable = 0
  /\ console' = Append(console, Msg("no_usable"))
  /\ pc' = "done"
  /\ UNCHANGED <<TOP_N, SAVE_CSV, INCLUDE_PODCASTS_AUDIOBOOKS, fs, globbed, records,
                 raised, i, r, norm, artist_ms, track_ms, year_total_ms, year_streams,
                 usable, years, yi, outdir, files, run, rerun_records, first_console, first_records>>

\* the bug of reporting without the usable == 0 return
ReportHeader_Unguarded ==
  /\ pc = "loop"
  /\ i > Len(records)
  /\ years' = SortedYears(DOMAIN year_total_ms)
  /\ console' = Append(console, Msg("banner"))
  /\ outdir' = (outdir \/ SAVE_CSV)
  /\ yi' = 1
  /\ pc' = "report"
  /\ UNCHANGED <<TOP_N, SAVE_CSV, INCLUDE_PODCASTS_AUDIOBOOKS, fs, globbed, records,
                 raised, i, r, norm, artist_ms, track_ms, year_total_ms, year_streams,
                 usable, files, run, rerun_records, first_console, first_records>>

\* lines 127-131
ReportHeader ==
  /\ pc = "loop"
  /\ i > Len(records)
  /\ usable # 0
  /\ years' = SortedYears(DOMAIN year_total_ms)
  /\ console' = Append(console, Msg("banner"))
  /\ outdir' = (outdir \/ SAVE_CSV)
  /\ yi' = 1
  /\ pc' = "report"
  /\ UNCHANGED <<TOP_N, SAVE_CSV, INCLUDE_PODCASTS_AUDIOBOOKS, fs, globbed, records,
                 raised, i, r, norm, artist_ms, track_ms, year_total_ms, year_streams,
                 usable, files, run, rerun_records, first_console, first_records>>

\* lines 133-149: one iteration of the loop over years
ReportYear ==
  /\ pc = "report"
  /\ yi <= Len(years)
  /\ LET y == years[yi]
     IN  /\ console' =
              Append(console,
                     YearBlock(y, YearGet(year_total_ms, y), YearGet(year_streams, y),
                               most_common(YearCounter(artist_ms, y), TOP_N),
                               most_common(YearCounter(track_ms, y), TOP_N)))
         /\ files' =
              IF SAVE_CSV
              THEN save_counter_csv(
                     save_counter_csv(files, CsvName(y, "top_artists"),
                                      YearCounter(artist_ms, y), "artist", "ms_listened"),
                     CsvName(y, "top_songs"), YearCounter(track_ms, y),
                     "song", "ms_listened")
              ELSE files
  /\ yi' = yi + 1
  /\ UNCHANGED <<TOP_N, SAVE_CSV, INCLUDE_PODCASTS_AUDIOBOOKS, pc, fs, globbed, records,
                 raised, i, r, norm, artist_ms, track_ms, year_total_ms, year_streams,
                 usable, years, outdir, run, rerun_records, first_console, first_records>>

\* lines 151-156
WriteTotals ==
  /\ pc = "report"
  /\ yi > Len(years)
  /\ files' =
       IF SAVE_CSV
       THEN (CsvName(0, "year_totals") :>
               [header |-> <<"year", "total_ms", "total_hours", "total_streams">>,
                rows |-> TotalsRows(years, year_total_ms, year_streams)]) @@ files
       ELSE files
  /\ console' = IF SAVE_CSV THEN Append(console, Msg("saved")) ELSE console
  /\ pc' = "done"
  /\ UNCHANGED <<TOP_N, SAVE_CSV, INCLUDE_PODCASTS_AUDIOBOOKS, fs, globbed, records,
                 raised, i, r, norm, artist_ms, track_ms, year_total_ms, year_streams,
                 usable, years, yi, outdir, run, rerun_records, first_console, first_records>>

----------------------------------------------------------------------------
(* inputs *)

MaxRecords == 3   \* records in the file of a run of main
MaxFiles == 2     \* entries of a glob result given to the loader
MaxElems == 2     \* elements of one JSON list given to the loader

SeqsUpTo(S, n) == UNION {[1..k -> S] : k \in 0..n}

\* a native-export record and a legacy-export record
Song(tsText, ms, artist, track) ==
  ("ts" :> PyStr(<<tsText, "Z">>)) @@ ("ms_played" :> PyInt(ms))
    @@ ("master_metadata_track_name" :> PyStr(<<track>>))
    @@ ("master_metadata_album_artist_name" :> PyStr(<<artist>>))
LegacySong(tsText, ms, artist, track) ==
  ("endTime" :> PyStr(<<tsText>>)) @@ ("msPlayed" :> PyInt(ms))
    @@ ("trackName" :> PyStr(<<track>>)) @@ ("artistName" :> PyStr(<<artist>>))
Episode(tsText, ms, show, ep) ==
  ("ts" :> PyStr(<<tsText, "Z">>)) @@ ("ms_played" :> PyInt(ms))
    @@ ("master_metadata_track_name" :> PyNone)
    @@ ("episode_name" :> PyStr(<<ep>>)) @@ ("episode_show_name" :> PyStr(<<show>>))

SongXA == Song("2023-05-01T10:00:00", 100000, "Artist X", "Song A")
SongXD == Song("2023-05-01T10:00:00", 100000, "Artist X", "Song D")
SongYB == Song("2023-05-01T10:00:00", 100000, "Artist Y", "Song B")
SongZC == Song("2023-05-01T10:00:00", 200000, "Artist Z", "Song C")
OldXA == LegacySong("2022-12-31 23:59", 300000, "Artist X", "Song A")
Skip == Song("2023-05-01T10:00:00", 0, "Artist Y", "Song B")
Pod == Episode("2023-05-01T10:00:00", 100000, "Show S", "Episode E")

MainRecords == {SongXA, SongXD, SongYB, SongZC, OldXA, Skip, Pod}
RerunRecords == {SongXA, SongXD, SongYB, SongZC}

\* the paths "a/b.json"-like strings stand for: <<1, 2>> sorts before <<2>>
MainPath == <<1, 2>>
Paths == {<<1, 2>>, <<2>>}

AsDicts(recs) == [j \in DOMAIN recs |-> Dict(recs[j])]

\* inputs on which load_streaming_history raises
RaisingInputs ==
  {[g |-> <<>>, f |-> <<>>], [g |-> <<MainPath>>, f |-> (MainPath :> DirEntry)]}

OneFile(recs) == [g |-> <<MainPath>>, f |-> (MainPath :> JsonList(AsDicts(recs)))]

MainInputs == RaisingInputs \cup {OneFile(recs) : recs \in SeqsUpTo(MainRecords, MaxRecords)}

\* The configuration globals of lines 8-10 are set once (TOP_N = 10,
\* SAVE_CSV = True, INCLUDE_PODCASTS_AUDIOBOOKS = False) and never assigned
\* again; each Init draws them from a set that holds the source's value, so
\* that a top list shorter than its counter and both values of the flags occur.

\* the state of the process before main runs, the configuration apart
Fresh ==
  /\ records = <<>>
  /\ raised = ""
  /\ i = 0
  /\ r = <<>>
  /\ norm = NoEvent
  /\ artist_ms = <<>>
  /\ track_ms = <<>>
  /\ year_total_ms = <<>>
  /\ year_streams = <<>>
  /\ usable = 0
  /\ years = <<>>
  /\ yi = 0
  /\ console = <<>>
  /\ outdir = FALSE
  /\ files = <<>>
  /\ run = 1
  /\ first_console = <<>>
  /\ first_records = <<>>

Init ==
  /\ TOP_N \in {1, 2, 10}
  /\ SAVE_CSV \in BOOLEAN
  /\ INCLUDE_PODCASTS_AUDIOBOOKS \in BOOLEAN
  /\ pc = "start"
  /\ \E in \in MainInputs : globbed = in.g /\ fs = in.f
  /\ rerun_records = <<>>
  /\ Fresh

Next ==
  \/ LoadRaises
  \/ LoadReturns
  \/ LoopSkip
  \/ LoopAggregate
  \/ NoUsable
  \/ ReportHeader
  \/ ReportYear
  \/ WriteTotals

Spec == Init /\ [][Next]_vars

----------------------------------------------------------------------------
(* the pipeline run again on the same records in another order *)

Reorderings(s) ==
  {[j \in DOMAIN s |-> s[p[j]]] :
     p \in {q \in [DOMAIN s -> DOMAIN s] : \A a, b \in DOMAIN s : q[a] = q[b] => a = b}}

InitRerun ==
  /\ TOP_N \in {1, 2}
  /\ SAVE_CSV \in BOOLEAN
  /\ INCLUDE_PODCASTS_AUDIOBOOKS = FALSE
  /\ pc = "start"
  /\ \/ \E in \in RaisingInputs : globbed = in.g /\ fs = in.f /\ rerun_records = <<>>
     \/ \E recs \in SeqsUpTo(RerunRecords \cup {Skip}, MaxRecords) :
          /\ globbed = OneFile(recs).g
          /\ fs = OneFile(recs).f
          /\ rerun_records \in Reorderings(recs)
  /\ Fresh

\* a second run of the program: a new process, the input file now holding
\* rerun_records; ./out and its files are still there
Rerun ==
  /\ pc = "done"
  /\ run = 1
  /\ run' = 2
  /\ first_console' = console
  /\ first_records' = records
  /\ fs' = OneFile(rerun_records).f
  /\ globbed' = OneFile(rerun_records).g
  /\ pc' = "start"
  /\ records' = <<>>
  /\ i' = 0
  /\ r' = <<>>
  /\ norm' = NoEvent
  /\ artist_ms' = <<>>
  /\ track_ms' = <<>>
  /\ year_total_ms' = <<>>
  /\ year_streams' = <<>>
  /\ usable' = 0
  /\ years' = <<>>
  /\ yi' = 0
  /\ console' = <<>>
  /\ UNCHANGED <<TOP_N, SAVE_CSV, INCLUDE_PODCASTS_AUDIOBOOKS, raised, outdir, files,
                 rerun_records>>

NextRerun == Next \/ Rerun

SpecRerun == InitRerun /\ [][NextRerun]_vars

----------------------------------------------------------------------------
(* load_streaming_history on its own *)

LoadElems == {Dict(SongXA), Dict(OldXA), NonDict}

LoadFiles ==
  {DirEntry, Undecodable, JsonHistoryOther, JsonDict, JsonScalar}
    \cup {JsonList(es) : es \in SeqsUpTo(LoadElems, MaxElems)}
    \cup {JsonHistory(es) : es \in SeqsUpTo(LoadElems, MaxElems)}

InitLoad ==
  /\ TOP_N = 10
  /\ SAVE_CSV = TRUE
  /\ INCLUDE_PODCASTS_AUDIOBOOKS = FALSE
  /\ pc = "call_load"
  /\ globbed \in SeqsUpTo(Paths, MaxFiles)
  /\ fs \in [SeqRange(globbed) -> LoadFiles]
  /\ rerun_records = <<>>
  /\ Fresh

\* records = load_streaming_history(folder), or the exception it ends with
Load ==
  /\ pc = "call_load"
  /\ records' = Loaded.records
  /\ raised' = Loaded.raised
  /\ pc' = "load_returned"
  /\ UNCHANGED <<TOP_N, SAVE_CSV, INCLUDE_PODCASTS_AUDIOBOOKS, fs, globbed,
                 i, r, norm, artist_ms, track_ms, year_total_ms, year_streams, usable,
                 years, yi, console, outdir, files, run, rerun_records, first_console, first_records>>

SpecLoad == InitLoad /\ [][Load]_vars

----------------------------------------------------------------------------
(* normalize_record on its own *)

Opt(key, values) == {<<>>} \cup {key :> v : v \in values}

TsIso == PyStr(<<"2023-05-01T10:00:00", "Z">>)
TsPadded == PyStr(<<" ", "2022-12-31 23:59", " ">>)
TsLoose == PyStr(<<"2021-1-2T03:04:05">>)
TsBad == PyStr(<<"not-a-date">>)

TsParts ==
  {a @@ b @@ c :
     a \in Opt("ts", {TsIso, TsBad, PyNone, PyStr(<<>>), PyStr(<<"null">>), PyInt(0)}),
     b \in Opt("endTime", {TsPadded, TsBad}),
     c \in Opt("played_at", {TsLoose})}

MsParts ==
  {a @@ b :
     a \in Opt("ms_played",
               {PyNone, PyStr(<<"null">>), PyInt(0), PyInt(180000), PyInt(-5),
                PyStr(<<" ", "180000">>), PyStr(<<"12.5">>), PyFloat(5), PyFloat(125),
                PyBool(TRUE), PyList(1)}),
     b \in Opt("play_duration_ms", {PyInt(5000)})}

IdParts ==
  {a @@ b @@ c @@ d @@ e :
     a \in Opt("trackName", {PyStr(<<" ", "Song A">>), PyInt(0)}),
     b \in Opt("artistName", {PyStr(<<"Artist X", " ">>), PyStr(<<>>)}),
     c \in Opt("episode_name", {PyStr(<<"Episode E">>)}),
     d \in Opt("episode_show_name", {PyStr(<<"Show S">>)}),
     e \in {<<>>,
            ("audiobook_title" :> PyStr(<<"Book B">>)),
            ("audiobook_title" :> PyStr(<<"Book B">>))
              @@ ("audiobook_chapter_title" :> PyStr(<<"Chapter 1">>))}}

NormRecords == {a @@ b @@ c : a \in TsParts, b \in MsParts, c \in IdParts}

InitNormalize ==
  /\ TOP_N = 10
  /\ SAVE_CSV = TRUE
  /\ INCLUDE_PODCASTS_AUDIOBOOKS \in BOOLEAN
  /\ pc = "call_normalize"
  /\ globbed = <<>>
  /\ fs = <<>>
  /\ rerun_records = <<>>
  /\ records = <<>>
  /\ raised = ""
  /\ i = 0
  /\ r \in NormRecords
  /\ norm = NoEvent
  /\ artist_ms = <<>>
  /\ track_ms = <<>>
  /\ year_total_ms = <<>>
  /\ year_streams = <<>>
  /\ usable = 0
  /\ years = <<>>
  /\ yi = 0
  /\ console = <<>>
  /\ outdir = FALSE
  /\ files = <<>>
  /\ run = 1
  /\ first_console = <<>>
  /\ first_records = <<>>

\* norm = normalize_record(r)
Normalize ==
  /\ pc = "call_normalize"
  /\ norm' = normalize_record(r, INCLUDE_PODCASTS_AUDIOBOOKS)
  /\ pc' = "normalize_returned"
  /\ UNCHANGED <<TOP_N, SAVE_CSV, INCLUDE_PODCASTS_AUDIOBOOKS, fs, globbed, records,
                 raised, i, r, artist_ms, track_ms, year_total_ms, year_streams, usable,
                 years, yi, console, outdir, files, run, rerun_records, first_console, first_records>>

SpecNormalize == InitNormalize /\ [][Normalize]_vars

----------------------------------------------------------------------------
(* Properties of normalize_record, checked under SpecNormalize *)

Returned == pc = "normalize_returned"

\* the value of the first key of keys that rec holds with a value Usable
\* accepts, PyNone when there is none
FirstUsable(rec, keys, Usable(_)) ==
  LET hits == {j \in DOMAIN keys : keys[j] \in DOMAIN rec /\ Usable(rec[keys[j]])}
  IN  IF hits = {} THEN PyNone
      ELSE rec[keys[CHOOSE j \in hits : \A k \in hits : j <= k]]

NotNullNotEmpty(v) == v.t # "None" /\ ~(v.t = "str" /\ v.s = <<>>)
NotNullNotEmptyNotNullText(v) == NotNullNotEmpty(v) /\ ~(v.t = "str" /\ v.s = <<"null">>)

\* the record is complete apart from the field a claim is about
GoodIdentity(rec) ==
  /\ Truthy(FirstUsable(rec, TrackKeys, NotNullNotEmptyNotNullText))
  /\ Truthy(FirstUsable(rec, ArtistKeys, NotNullNotEmptyNotNullText))

\* C4: a record whose resolved duration (the first duration field holding a
\* value, coerced with int(), 0 when there is none or it does not coerce) is
\* not positive normalizes to None whatever its other fields are, and every
\* event normalize_record returns has a positive duration_ms.
C4_NonPositiveDurationDiscarded ==
  Returned =>
    /\ (ResolvedMs(r) <= 0 => ~norm.some)
    /\ (norm.some => norm.ms > 0)

C4_Witness ==
  /\ Returned
  /\ ResolvedMs(r) <= 0
  /\ "ms_played" \in DOMAIN r
  /\ ResolvedDt(r).ok
  /\ GoodIdentity(r)
  /\ ~norm.some

\* what C9 says of a record, the candidate values being those Usable accepts:
\* no candidate or an unparsable first candidate discards the record, and an
\* event carries the year of the first candidate
FirstTimestampWins(Usable(_)) ==
  LET first == FirstUsable(r, TsKeys, Usable)
  IN  /\ (first = PyNone \/ ~parse_dt(first).ok) => ~norm.some
      /\ norm.some => norm.year = parse_dt(first).year

\* C9 as stated: the timestamp is the first of ts, endTime, timestamp,
\* played_at present with a non-null, non-empty value, and only that value
\* is used.
C9_Original == Returned => FirstTimestampWins(NotNullNotEmpty)

\* C9 amended: the timestamp is the first of ts, endTime, timestamp, played_at
\* present with a value that is not null, not the empty string and not the
\* string "null"; only that value is used: when it does not parse, or there
\* is none, the record is discarded, and an event's year is its year.
C9_FirstTimestampWins == Returned => FirstTimestampWins(NotNullNotEmptyNotNullText)

C9_Witness ==
  /\ Returned
  /\ "ts" \in DOMAIN r
  /\ r["ts"] = TsBad
  /\ "endTime" \in DOMAIN r
  /\ parse_dt(r["endTime"]).ok
  /\ ResolvedMs(r) > 0
  /\ GoodIdentity(r)
  /\ ~norm.some

Present(rec, key) == Truthy(FirstUsable(rec, <<key>>, NotNullNotEmptyNotNullText))

\* C10: a record with a resolved timestamp and a positive duration is a song
\* when track and artist both resolve to non-empty (truthy) values; otherwise,
\* only with the include flag set, a podcast when episode_name and
\* episode_show_name are both present, else an audiobook when audiobook_title
\* and audiobook_chapter_title are both present; otherwise it is discarded.
\* With the flag unset the result is a song or None.
C10_ClassificationPriority ==
  (Returned /\ ResolvedDt(r).ok /\ ResolvedMs(r) > 0) =>
    LET song == GoodIdentity(r)
        podcast == Present(r, "episode_name") /\ Present(r, "episode_show_name")
        audiobook == Present(r, "audiobook_title") /\ Present(r, "audiobook_chapter_title")
        expected ==
          IF song THEN "song"
          ELSE IF INCLUDE_PODCASTS_AUDIOBOOKS /\ podcast THEN "podcast"
          ELSE IF INCLUDE_PODCASTS_AUDIOBOOKS /\ audiobook THEN "audiobook"
          ELSE "None"
    IN  /\ (IF norm.some THEN norm.item_type ELSE "None") = expected
        /\ ~INCLUDE_PODCASTS_AUDIOBOOKS => (~norm.some \/ norm.item_type = "song")

C10_Witness ==
  /\ Returned
  /\ ~INCLUDE_PODCASTS_AUDIOBOOKS
  /\ ResolvedDt(r).ok
  /\ ResolvedMs(r) > 0
  /\ ~GoodIdentity(r)
  /\ Present(r, "episode_name")
  /\ Present(r, "episode_show_name")
  /\ ~norm.some

----------------------------------------------------------------------------
(* Properties of load_streaming_history, checked under SpecLoad *)

LoadReturned == pc = "load_returned"

\* a sorts before b as a string
Precedes(a, b) ==
  \E k \in 1..(Len(b)) :
    /\ \A j \in 1..(k - 1) : j <= Len(a) /\ a[j] = b[j]
    /\ (k > Len(a) \/ (k <= Len(a) /\ a[k] < b[k]))

\* the distinct paths of the glob result in ascending order
Ascending ==
  CHOOSE q \in [1..Cardinality(SeqRange(globbed)) -> SeqRange(globbed)] :
    \A a, b \in DOMAIN q : a < b => Precedes(q[a], q[b])

\* the element sequence of a file: the top-level list, or the list under the
\* "history" member of a top-level object; nothing for any other payload
ElementsOf(file) ==
  IF file.kind # "file" \/ ~file.decodes THEN <<>>
  ELSE IF file.top = "list" THEN file.elems
  ELSE IF file.top = "dict" /\ file.history = "list" THEN file.helems
  ELSE <<>>

ObjectsOf(file) ==
  LET es == ElementsOf(file)
      keep == {j \in DOMAIN es : es[j].isdict}
      nth(k) == CHOOSE j \in keep : Cardinality({m \in keep : m < j}) = k - 1
  IN  [k \in 1..Cardinality(keep) |-> es[nth(k)].rec]

RECURSIVE Concatenation(_)
Concatenation(paths) ==
  IF paths = <<>> THEN <<>>
  ELSE ObjectsOf(fs[Head(paths)]) \o Concatenation(Tail(paths))

\* C5 as stated: load_streaming_history raises if and only if the glob
\* matched no path; with at least one matching path, whatever it is, no
\* error is raised.
C5_RaisesOnlyWithoutFiles == LoadReturned => (raised # "" <=> globbed = <<>>)

\* C6: the sequence load_streaming_history returns is the concatenation, in
\* ascending path order and in-file order, of the object elements of every
\* decoded file, a file's elements being its top-level list or the list under
\* "history" of its top-level object.
C6_RecordsAreConcatenation ==
  (LoadReturned /\ raised = "") => records = Concatenation(Ascending)

C6_Witness ==
  /\ LoadReturned
  /\ raised = ""
  /\ Len(globbed) = 2
  /\ Precedes(globbed[2], globbed[1])
  /\ fs[globbed[1]].top = "dict"
  /\ fs[globbed[1]].history = "list"
  /\ fs[globbed[2]].top = "list"
  /\ \E j \in DOMAIN fs[globbed[2]].elems : ~fs[globbed[2]].elems[j].isdict
  /\ Len(records) = 2
  /\ records[1] # records[2]

----------------------------------------------------------------------------
(* Properties of main, checked under Spec *)

ModelYears == {2021, 2022, 2023}

RECURSIVE SumV(_)
SumV(c) == IF c = <<>> THEN 0 ELSE Head(c).v + SumV(Tail(c))

\* C1: at every point of the aggregation loop and after it, the years of the
\* aggregates are those of the year totals, and each year's total is the sum
\* of the year's artist counts.
C1_YearTotalIsArtistSum ==
  /\ DOMAIN artist_ms = DOMAIN year_total_ms
  /\ \A y \in DOMAIN year_total_ms : year_total_ms[y] = SumV(artist_ms[y])

C1_Witness ==
  /\ pc = "loop"
  /\ \E y \in DOMAIN year_total_ms :
       /\ Len(artist_ms[y]) >= 2
       /\ year_streams[y] >= 3

LoopFinished == pc \in {"report", "done"} \/ (pc = "loop" /\ i > Len(records))

EventOf(rec) == normalize_record(rec, INCLUDE_PODCASTS_AUDIOBOOKS)

\* the events of the records, None included, in record order
EventsOf(recs) == [j \in DOMAIN recs |-> EventOf(recs[j])]

RECURSIVE DurationOfYear(_, _)
DurationOfYear(events, y) ==
  IF events = <<>> THEN 0
  ELSE (IF Head(events).some /\ Head(events).year = y THEN Head(events).ms ELSE 0)
         + DurationOfYear(Tail(events), y)

EventsOfYear(events, y) ==
  Cardinality({j \in DOMAIN events : events[j].some /\ events[j].year = y})

\* C2: once the loop has finished, each year's total is the sum of duration_ms
\* over the records that normalize to an event of that year and its stream
\* count is the number of those records; a repeated record counts each time.
C2_TotalsAreExactSums ==
  LoopFinished =>
    LET events == EventsOf(records)
    IN  \A y \in ModelYears :
          /\ YearGet(year_total_ms, y) = DurationOfYear(events, y)
          /\ YearGet(year_streams, y) = EventsOfYear(events, y)

C2_Witness ==
  /\ LoopFinished
  /\ Len(records) >= 3
  /\ records[1] = records[2]
  /\ EventOf(records[1]).some
  /\ ~EventOf(records[3]).some
  /\ YearGet(year_total_ms, EventOf(records[1]).year) = 2 * EventOf(records[1]).ms

IsOutput(kind) == kind \in {"banner", "year", "saved"}

\* C7: a run that ends with usable = 0 has printed the no-usable-records
\* message and nothing else, raised nothing, left ./out uncreated and written
\* no file; the banner, a year block, ./out and a file exist only with
\* usable > 0.
C7_NoOutputWithoutUsableRecords ==
  /\ (pc = "done" /\ usable = 0) =>
       /\ console = <<Msg("no_usable")>>
       /\ raised = ""
       /\ ~outdir
       /\ files = <<>>
  /\ (outdir \/ files # <<>> \/ \E j \in DOMAIN console : IsOutput(console[j].kind)) =>
       usable > 0

C7_Witness ==
  /\ pc = "done"
  /\ usable = 0
  /\ SAVE_CSV
  /\ Len(records) >= 2
  /\ console = <<Msg("no_usable")>>

\* the index of the first record whose event of year y has key under field
FirstSeen(y, field, key) ==
  LET hits == {j \in DOMAIN records :
                 /\ EventOf(records[j]).some
                 /\ EventOf(records[j]).year = y
                 /\ EventOf(records[j])[field] = key}
  IN  CHOOSE j \in hits : \A k \in hits : j <= k

\* entry a ranks before entry b: longer duration, or equal and inserted first
Before(y, field, a, b) ==
  \/ a.v > b.v
  \/ a.v = b.v /\ FirstSeen(y, field, a.k) < FirstSeen(y, field, b.k)

\* out is the first min(n, number of entries) entries of the ranking of c
IsTop(out, c, n, y, field) ==
  /\ Len(out) = IF n < Len(c) THEN n ELSE Len(c)
  /\ \A a \in DOMAIN out : out[a] \in SeqRange(c)
  /\ \A a, b \in DOMAIN out : a < b => Before(y, field, out[a], out[b])
  /\ \A e \in SeqRange(c) \ SeqRange(out) : \A a \in DOMAIN out : Before(y, field, out[a], e)

\* C8: each printed top list is the first min(TOP_N, number of entries)
\* entries of the year's counter ordered by duration descending, equal
\* durations by first insertion, and each CSV lists every entry in that order.
C8_RankingByDurationThenInsertion ==
  /\ \A j \in DOMAIN console :
       console[j].kind = "year" =>
         /\ IsTop(console[j].artists, YearCounter(artist_ms, console[j].year), TOP_N,
                  console[j].year, "artist_key")
         /\ IsTop(console[j].songs, YearCounter(track_ms, console[j].year), TOP_N,
                  console[j].year, "item_key")
  /\ \A f \in DOMAIN files :
       /\ f.name = "top_artists" =>
            IsTop(files[f].rows, YearCounter(artist_ms, f.year),
                  Len(YearCounter(artist_ms, f.year)), f.year, "artist_key")
       /\ f.name = "top_songs" =>
            IsTop(files[f].rows, YearCounter(track_ms, f.year),
                  Len(YearCounter(track_ms, f.year)), f.year, "item_key")

C8_Witness ==
  \E j \in DOMAIN console :
    /\ console[j].kind = "year"
    /\ Len(console[j].artists) = TOP_N
    /\ LET c == artist_ms[console[j].year]
       IN  /\ Len(c) > TOP_N
           /\ \E e \in SeqRange(c) \ SeqRange(console[j].artists) :
                e.v = console[j].artists[TOP_N].v
    /\ CsvName(console[j].year, "top_artists") \in DOMAIN files

----------------------------------------------------------------------------
(* Property of two runs on reordered input, checked under SpecRerun *)

SecondRunDone == pc = "done" /\ run = 2

IsYearBlock(b) == b.kind = "year"

NoTwoEqual(c) == \A a, b \in DOMAIN c : a # b => c[a].v # c[b].v

NoTies ==
  \A y \in DOMAIN artist_ms : NoTwoEqual(artist_ms[y]) /\ NoTwoEqual(track_ms[y])

\* C3 as stated: the top lists of a run on a permutation of the records are
\* those of the first run, in the same order.
C3_SameTopListsForAnyOrder ==
  SecondRunDone => SelectSeq(console, IsYearBlock) = SelectSeq(first_console, IsYearBlock)

\* C3 amended: the top lists of a run on a permutation of the records are
\* those of the first run, in the same order, when in no year two artists
\* have the same cumulative duration and no two tracks have.
C3_SameTopListsWithoutTies ==
  (SecondRunDone /\ NoTies) =>
    SelectSeq(console, IsYearBlock) = SelectSeq(first_console, IsYearBlock)

C3_Witness ==
  /\ SecondRunDone
  /\ NoTies
  /\ records # first_records
  /\ \E y \in DOMAIN artist_ms : Len(artist_ms[y]) >= 2 /\ TOP_N < Len(artist_ms[y])

====
